---- MODULE Spec2Model ----
(***************************************************************************)
(* Model of train/train.py: the orchestrator that selects a run mode,      *)
(* prepares the log directories and supervises the learner (polybeast)     *)
(* and the environment driver (pantheon_env) subprocesses.                 *)
(***************************************************************************)
EXTENDS Integers, Sequences, FiniteSets, TLC

\* Number of distinct file names a previous run may have left behind.
MaxStale == 1

Files == 1..MaxStale

\* What a previous learner may have left in logdir/torchbeast.
SaveFiles == {"logs.csv"}

\* The modes main dispatches on, and one value outside them.
Modes == {"train", "test", "test_local", "trace"}
ModeValues == Modes \cup {"bogus"}

\* The values flags.mode takes when init_logdirs runs.
StageModes == {"train", "test", "trace"}

VARIABLES
    mode,            \* local `mode` of main: flags.mode as given on the command line
    flags,           \* the flags object main was called with
    tflags,          \* <<>> or <<f>>: the deep copy test_local hands to trace
    pc,              \* position of the orchestrator
    stack,           \* return positions of the calls in progress
    train,           \* parameter `train` of run_remote
    polybeast_proc,  \* local: index in procs of the learner of the current call, 0 if none
    pantheon_proc,   \* local: index in procs of the env driver of the current call, 0 if none
    procs,           \* every mp.Process started so far, in start order
    calls,           \* the functions entered so far, in order
    checkpoint,      \* base_logdir/checkpoint.tar exists
    traced_model,    \* base_logdir/traced_model.pt exists
    socket,          \* /tmp/rl_server_path exists
    dirs             \* base_logdir/<mode> for each stage mode

vars == <<mode, flags, tflags, pc, stack, train, polybeast_proc, pantheon_proc,
          procs, calls, checkpoint, traced_model, socket, dirs>>

fsvars == <<checkpoint, traced_model, socket, dirs>>

----------------------------------------------------------------------------
\* Filesystem

\* A directory base_logdir/<mode>: absent, or present with some files and
\* possibly a torchbeast subdirectory with some files.
NoDir == [exists |-> FALSE, files |-> {}, tb |-> FALSE, tbfiles |-> {}]

DirStates ==
    {NoDir} \cup
    { [exists |-> TRUE, files |-> fs, tb |-> FALSE, tbfiles |-> {}] : fs \in SUBSET Files } \cup
    { [exists |-> TRUE, files |-> fs, tb |-> TRUE, tbfiles |-> ts] :
          fs \in SUBSET Files, ts \in SUBSET SaveFiles }

\* Variant: the tree is removed in train mode too.
rmtree_any_mode(ds, m) ==
    IF ds[m].exists THEN [ds EXCEPT ![m] = NoDir] ELSE ds

\* shutil.rmtree(flags.logdir), guarded as on line 46
rmtree(ds, m) ==
    IF m # "train" /\ ds[m].exists THEN [ds EXCEPT ![m] = NoDir] ELSE ds

\* Variant: only the log directory is created, an existing one is kept as it is.
makedirs_logdir_only(ds, m) ==
    [ds EXCEPT ![m].exists = TRUE]

\* os.makedirs(flags.logdir, exist_ok=True); os.makedirs(flags.savedir, exist_ok=True)
makedirs(ds, m) ==
    [ds EXCEPT ![m].exists = TRUE, ![m].tb = TRUE]

\* The filesystem effect of init_logdirs for flags.mode = m
init_logdirs_dirs(ds, m) == makedirs(rmtree(ds, m), m)

\* Variant: the checkpoint is required in test mode only.
init_logdirs_ok_test_only(m, ckpt) == m # "test" \/ ckpt

\* The assertion of init_logdirs: TRUE when it passes
init_logdirs_ok(m, ckpt) == m = "train" \/ ckpt

\* The attributes init_logdirs sets on the flags object
init_logdirs_flags(f) == [f EXCEPT !.logdir = f.mode]

----------------------------------------------------------------------------
\* Subprocesses

Process(target, f) ==
    [target |-> target, flags |-> f, alive |-> TRUE, killed |-> FALSE,
     joined |-> FALSE, exitcode |-> 0]

Alive == { i \in 1..Len(procs) : procs[i].alive }

----------------------------------------------------------------------------
Init ==
    /\ mode \in ModeValues
    /\ flags = [mode |-> mode, logdir |-> "unset", address |-> "unset",
                disable_cuda |-> FALSE, cc_env_mode |-> "unset"]
    /\ tflags = <<>>
    /\ pc = "main"
    /\ stack = <<>>
    /\ train = FALSE
    /\ polybeast_proc = 0
    /\ pantheon_proc = 0
    /\ procs = <<>>
    /\ calls = <<>>
    /\ checkpoint \in BOOLEAN
    /\ traced_model \in BOOLEAN
    /\ socket \in BOOLEAN
    /\ dirs \in [StageModes -> DirStates]

----------------------------------------------------------------------------
\* main

\* Variant: the test branch continues into the rest of the train branch.
dispatch_test_falls_through(m) ==
    CASE m = "train"      -> <<"run_remote", TRUE, <<"main_trace">> >>
      [] m = "test"       -> <<"run_remote", FALSE, <<"main_trace">> >>
      [] m = "test_local" -> <<"test_local", FALSE, <<"main_end">> >>
      [] m = "trace"      -> <<"trace", FALSE, <<"main_end">> >>
      [] OTHER            -> <<"failed", FALSE, <<>> >>

\* Variant: the test branch calls run_remote with train=True.
dispatch_test_trains(m) ==
    CASE m = "train"      -> <<"run_remote", TRUE, <<"main_trace">> >>
      [] m = "test"       -> <<"run_remote", TRUE, <<"main_end">> >>
      [] m = "test_local" -> <<"test_local", FALSE, <<"main_end">> >>
      [] m = "trace"      -> <<"trace", FALSE, <<"main_end">> >>
      [] OTHER            -> <<"failed", FALSE, <<>> >>

\* Variant: the last branch is an else that traces instead of raising.
dispatch_else_traces(m) ==
    CASE m = "train"      -> <<"run_remote", TRUE, <<"main_trace">> >>
      [] m = "test"       -> <<"run_remote", FALSE, <<"main_end">> >>
      [] m = "test_local" -> <<"test_local", FALSE, <<"main_end">> >>
      [] OTHER            -> <<"trace", FALSE, <<"main_end">> >>

\* The branch main takes for a mode: <<next position, train argument, return position>>
dispatch(m) ==
    CASE m = "train"      -> <<"run_remote", TRUE, <<"main_trace">> >>
      [] m = "test"       -> <<"run_remote", FALSE, <<"main_end">> >>
      [] m = "test_local" -> <<"test_local", FALSE, <<"main_end">> >>
      [] m = "trace"      -> <<"trace", FALSE, <<"main_end">> >>
      [] OTHER            -> <<"failed", FALSE, <<>> >>

Main ==
    /\ pc = "main"
    /\ pc' = dispatch(mode)[1]
    /\ train' = dispatch(mode)[2]
    /\ stack' = dispatch(mode)[3]
    /\ UNCHANGED <<mode, flags, tflags, polybeast_proc, pantheon_proc, procs, calls>>
    /\ UNCHANGED fsvars

\* main, train branch: trace(flags) after run_remote(flags, train=True)
MainTrace ==
    /\ pc = "main_trace"
    /\ pc' = "trace"
    /\ stack' = <<"main_test">>
    /\ UNCHANGED <<mode, flags, tflags, train, polybeast_proc, pantheon_proc, procs, calls>>
    /\ UNCHANGED fsvars

\* main, train branch: run_remote(flags, train=False) after trace(flags)
MainTest ==
    /\ pc = "main_test"
    /\ pc' = "run_remote"
    /\ train' = FALSE
    /\ stack' = <<"main_end">>
    /\ UNCHANGED <<mode, flags, tflags, polybeast_proc, pantheon_proc, procs, calls>>
    /\ UNCHANGED fsvars

\* main: the final "All done!" log line
MainEnd ==
    /\ pc = "main_end"
    /\ pc' = "done"
    /\ UNCHANGED <<mode, flags, tflags, stack, train, polybeast_proc, pantheon_proc,
                   procs, calls>>
    /\ UNCHANGED fsvars

----------------------------------------------------------------------------
\* run_remote

RunRemoteMode == IF train THEN "train" ELSE "test"

\* Variant: the checkpoint assertion comes first, before the directories
\* are touched.
RunRemoteInitChecksFirst ==
    /\ pc = "run_remote"
    /\ flags' = init_logdirs_flags([flags EXCEPT !.mode = RunRemoteMode])
    /\ dirs' = IF init_logdirs_ok(RunRemoteMode, checkpoint)
               THEN init_logdirs_dirs(dirs, RunRemoteMode)
               ELSE dirs
    /\ pc' = IF init_logdirs_ok(RunRemoteMode, checkpoint) THEN "rr_socket" ELSE "aborted"
    /\ calls' = Append(calls, IF train THEN "remote_train" ELSE "remote_test")
    /\ UNCHANGED <<mode, tflags, stack, train, polybeast_proc, pantheon_proc, procs>>
    /\ UNCHANGED <<checkpoint, traced_model, socket>>

\* flags.mode = ...; init_logdirs(flags)
RunRemoteInit ==
    /\ pc = "run_remote"
    /\ flags' = init_logdirs_flags([flags EXCEPT !.mode = RunRemoteMode])
    /\ dirs' = init_logdirs_dirs(dirs, RunRemoteMode)
    /\ pc' = IF init_logdirs_ok(RunRemoteMode, checkpoint) THEN "rr_socket" ELSE "aborted"
    /\ calls' = Append(calls, IF train THEN "remote_train" ELSE "remote_test")
    /\ UNCHANGED <<mode, tflags, stack, train, polybeast_proc, pantheon_proc, procs>>
    /\ UNCHANGED <<checkpoint, traced_model, socket>>

\* Variant: the OSError of os.remove is not caught, a missing file ends the run.
RunRemoteSocketStrict ==
    /\ pc = "rr_socket"
    /\ socket' = FALSE
    /\ flags' = [flags EXCEPT !.address = "unix:/tmp/rl_server_path",
                              !.disable_cuda = ~train,
                              !.cc_env_mode = "remote"]
    /\ pc' = IF socket THEN "rr_start_polybeast" ELSE "aborted"
    /\ UNCHANGED <<mode, tflags, stack, train, polybeast_proc, pantheon_proc, procs, calls>>
    /\ UNCHANGED <<checkpoint, traced_model, dirs>>

\* os.remove(address) ignoring OSError; address, disable_cuda, cc_env_mode
RunRemoteSocket ==
    /\ pc = "rr_socket"
    /\ socket' = FALSE
    /\ flags' = [flags EXCEPT !.address = "unix:/tmp/rl_server_path",
                              !.disable_cuda = ~train,
                              !.cc_env_mode = "remote"]
    /\ pc' = "rr_start_polybeast"
    /\ UNCHANGED <<mode, tflags, stack, train, polybeast_proc, pantheon_proc, procs, calls>>
    /\ UNCHANGED <<checkpoint, traced_model, dirs>>

\* polybeast_proc.start()
RunRemoteStartPolybeast ==
    /\ pc = "rr_start_polybeast"
    /\ procs' = Append(procs, Process("polybeast", flags))
    /\ polybeast_proc' = Len(procs) + 1
    /\ pc' = "rr_start_pantheon"
    /\ UNCHANGED <<mode, flags, tflags, stack, train, pantheon_proc, calls>>
    /\ UNCHANGED fsvars

\* pantheon_proc.start()
RunRemoteStartPantheon ==
    /\ pc = "rr_start_pantheon"
    /\ procs' = Append(procs, Process("pantheon_env", flags))
    /\ pantheon_proc' = Len(procs) + 1
    /\ pc' = "rr_join"
    /\ UNCHANGED <<mode, flags, tflags, stack, train, polybeast_proc, calls>>
    /\ UNCHANGED fsvars

\* The subprocess run_remote joins
joinee == IF train THEN polybeast_proc ELSE pantheon_proc

\* Variant: the subprocess that was joined is the one killed.
killee_joined == IF train THEN polybeast_proc ELSE pantheon_proc

\* The subprocess run_remote kills
killee == IF train THEN pantheon_proc ELSE polybeast_proc

\* Variant: the join returns at once (a join with a timeout that has expired).
RunRemoteJoinNoWait ==
    /\ pc = "rr_join"
    /\ procs' = [procs EXCEPT ![joinee].joined = TRUE]
    /\ pc' = "rr_kill"
    /\ UNCHANGED <<mode, flags, tflags, stack, train, polybeast_proc, pantheon_proc, calls>>
    /\ UNCHANGED fsvars

\* polybeast_proc.join() / pantheon_proc.join(): returns once the process is gone
RunRemoteJoin ==
    /\ pc = "rr_join"
    /\ ~procs[joinee].alive
    /\ procs' = [procs EXCEPT ![joinee].joined = TRUE]
    /\ pc' = "rr_kill"
    /\ UNCHANGED <<mode, flags, tflags, stack, train, polybeast_proc, pantheon_proc, calls>>
    /\ UNCHANGED fsvars

\* Variant: run_remote returns after the join, without the kill.
RunRemoteKillSkipped ==
    /\ pc = "rr_kill"
    /\ pc' = Head(stack)
    /\ stack' = Tail(stack)
    /\ polybeast_proc' = 0
    /\ pantheon_proc' = 0
    /\ UNCHANGED <<mode, flags, tflags, train, procs, calls>>
    /\ UNCHANGED fsvars

\* pantheon_proc.kill() / polybeast_proc.kill(), then return
RunRemoteKill ==
    /\ pc = "rr_kill"
    /\ procs' = [procs EXCEPT ![killee].killed = TRUE]
    /\ pc' = Head(stack)
    /\ stack' = Tail(stack)
    /\ polybeast_proc' = 0
    /\ pantheon_proc' = 0
    /\ UNCHANGED <<mode, flags, tflags, train, calls>>
    /\ UNCHANGED fsvars

----------------------------------------------------------------------------
\* trace

\* The flags object trace was called with: the deep copy when there is one
trace_flags == IF tflags # <<>> THEN tflags[1] ELSE flags

\* Assign f to the flags object trace was called with
trace_assign(f) ==
    IF tflags # <<>>
    THEN tflags' = <<f>> /\ flags' = flags
    ELSE flags' = f /\ tflags' = tflags

\* Variant: a clean run removes base_logdir itself, with the checkpoint, the
\* traced model and the log directories of the other stages.
TraceInitClearsBase ==
    /\ pc = "trace"
    /\ trace_assign(init_logdirs_flags([trace_flags EXCEPT !.mode = "trace"]))
    /\ dirs' = makedirs([m \in StageModes |-> NoDir], "trace")
    /\ checkpoint' = FALSE
    /\ traced_model' = FALSE
    /\ pc' = "aborted"
    /\ calls' = Append(calls, "trace")
    /\ UNCHANGED <<mode, stack, train, polybeast_proc, pantheon_proc, procs>>
    /\ UNCHANGED socket

\* flags.mode = "trace"; init_logdirs(flags)
TraceInit ==
    /\ pc = "trace"
    /\ trace_assign(init_logdirs_flags([trace_flags EXCEPT !.mode = "trace"]))
    /\ dirs' = init_logdirs_dirs(dirs, "trace")
    /\ pc' = IF init_logdirs_ok("trace", checkpoint) THEN "tr_start" ELSE "aborted"
    /\ calls' = Append(calls, "trace")
    /\ UNCHANGED <<mode, stack, train, polybeast_proc, pantheon_proc, procs>>
    /\ UNCHANGED <<checkpoint, traced_model, socket>>

\* polybeast_proc.start()
TraceStart ==
    /\ pc = "tr_start"
    /\ procs' = Append(procs, Process("polybeast", trace_flags))
    /\ polybeast_proc' = Len(procs) + 1
    /\ pc' = "tr_join"
    /\ UNCHANGED <<mode, flags, tflags, stack, train, pantheon_proc, calls>>
    /\ UNCHANGED fsvars

\* Variant: trace starts the learner and returns without joining it.
TraceJoinNoWait ==
    /\ pc = "tr_join"
    /\ pc' = Head(stack)
    /\ stack' = Tail(stack)
    /\ polybeast_proc' = 0
    /\ tflags' = <<>>
    /\ UNCHANGED <<mode, flags, train, pantheon_proc, procs, calls>>
    /\ UNCHANGED fsvars

\* Variant: a learner that exits with a non-zero code aborts the run.
TraceJoinChecksExit ==
    /\ pc = "tr_join"
    /\ ~procs[polybeast_proc].alive
    /\ procs' = [procs EXCEPT ![polybeast_proc].joined = TRUE]
    /\ pc' = IF procs[polybeast_proc].exitcode # 0 THEN "aborted" ELSE Head(stack)
    /\ stack' = Tail(stack)
    /\ polybeast_proc' = 0
    /\ tflags' = <<>>
    /\ UNCHANGED <<mode, flags, train, pantheon_proc, calls>>
    /\ UNCHANGED fsvars

\* polybeast_proc.join(), then return
TraceJoin ==
    /\ pc = "tr_join"
    /\ ~procs[polybeast_proc].alive
    /\ procs' = [procs EXCEPT ![polybeast_proc].joined = TRUE]
    /\ pc' = Head(stack)
    /\ stack' = Tail(stack)
    /\ polybeast_proc' = 0
    /\ tflags' = <<>>
    /\ UNCHANGED <<mode, flags, train, pantheon_proc, calls>>
    /\ UNCHANGED fsvars

----------------------------------------------------------------------------
\* test_local

\* flags.mode = "test"; init_logdirs(flags)
TestLocalInit ==
    /\ pc = "test_local"
    /\ flags' = init_logdirs_flags([flags EXCEPT !.mode = "test"])
    /\ dirs' = init_logdirs_dirs(dirs, "test")
    /\ pc' = IF init_logdirs_ok("test", checkpoint) THEN "tl_check" ELSE "aborted"
    /\ calls' = Append(calls, "test_local")
    /\ UNCHANGED <<mode, tflags, stack, train, polybeast_proc, pantheon_proc, procs>>
    /\ UNCHANGED <<checkpoint, traced_model, socket>>

\* Variant: trace is called with the flags object itself, not a deep copy.
TestLocalCheckNoCopy ==
    /\ pc = "tl_check"
    /\ IF ~traced_model
       THEN /\ stack' = <<"tl_start">> \o stack
            /\ pc' = "trace"
       ELSE /\ pc' = "tl_start"
            /\ UNCHANGED stack
    /\ UNCHANGED <<mode, flags, tflags, train, polybeast_proc, pantheon_proc, procs, calls>>
    /\ UNCHANGED fsvars

\* if not os.path.exists(flags.traced_model): trace(copy.deepcopy(flags))
TestLocalCheck ==
    /\ pc = "tl_check"
    /\ IF ~traced_model
       THEN /\ tflags' = <<flags>>
            /\ stack' = <<"tl_start">> \o stack
            /\ pc' = "trace"
       ELSE /\ pc' = "tl_start"
            /\ UNCHANGED <<tflags, stack>>
    /\ UNCHANGED <<mode, flags, train, polybeast_proc, pantheon_proc, procs, calls>>
    /\ UNCHANGED fsvars

\* flags.cc_env_mode = "local"; pantheon_proc.start()
TestLocalStart ==
    /\ pc = "tl_start"
    /\ flags' = [flags EXCEPT !.cc_env_mode = "local"]
    /\ procs' = Append(procs, Process("pantheon_env", flags'))
    /\ pantheon_proc' = Len(procs) + 1
    /\ pc' = "tl_join"
    /\ UNCHANGED <<mode, tflags, stack, train, polybeast_proc, calls>>
    /\ UNCHANGED fsvars

\* pantheon_proc.join(), then return
TestLocalJoin ==
    /\ pc = "tl_join"
    /\ ~procs[pantheon_proc].alive
    /\ procs' = [procs EXCEPT ![pantheon_proc].joined = TRUE]
    /\ pc' = Head(stack)
    /\ stack' = Tail(stack)
    /\ pantheon_proc' = 0
    /\ UNCHANGED <<mode, flags, tflags, train, polybeast_proc, calls>>
    /\ UNCHANGED fsvars

----------------------------------------------------------------------------
\* The subprocesses themselves (polybeast.main, pantheon_env.main)

\* A subprocess returns from its target on its own, with some exit code.  A
\* training learner may have saved the checkpoint, a tracing learner the
\* traced model.
Exit(i) ==
    /\ procs[i].alive
    /\ ~procs[i].killed
    /\ \E code \in {0, 1} :
          procs' = [procs EXCEPT ![i].alive = FALSE, ![i].exitcode = code]
    /\ IF procs[i].target = "polybeast" /\ procs[i].flags.mode = "train"
       THEN checkpoint' \in {checkpoint, TRUE}
       ELSE checkpoint' = checkpoint
    /\ IF procs[i].target = "polybeast" /\ procs[i].flags.mode = "trace"
       THEN traced_model' \in {traced_model, TRUE}
       ELSE traced_model' = traced_model
    /\ UNCHANGED <<mode, flags, tflags, pc, stack, train, polybeast_proc, pantheon_proc,
                   calls, socket, dirs>>

\* The SIGKILL sent by kill() takes effect: kill() does not wait for it.
Die(i) ==
    /\ procs[i].alive
    /\ procs[i].killed
    /\ procs' = [procs EXCEPT ![i].alive = FALSE, ![i].exitcode = -9]
    /\ UNCHANGED <<mode, flags, tflags, pc, stack, train, polybeast_proc, pantheon_proc,
                   calls>>
    /\ UNCHANGED fsvars

\* A learner serving the RL server binds the unix socket, creating its file.
Bind(i) ==
    /\ procs[i].alive
    /\ procs[i].target = "polybeast"
    /\ procs[i].flags.mode \in {"train", "test"}
    /\ ~socket
    /\ socket' = TRUE
    /\ UNCHANGED <<mode, flags, tflags, pc, stack, train, polybeast_proc, pantheon_proc,
                   procs, calls, checkpoint, traced_model, dirs>>

----------------------------------------------------------------------------
Orchestrator ==
    \/ Main
    \/ MainTrace
    \/ MainTest
    \/ MainEnd
    \/ RunRemoteInit
    \/ RunRemoteSocket
    \/ RunRemoteStartPolybeast
    \/ RunRemoteStartPantheon
    \/ RunRemoteJoin
    \/ RunRemoteKill
    \/ TraceInit
    \/ TraceStart
    \/ TraceJoin
    \/ TestLocalInit
    \/ TestLocalCheck
    \/ TestLocalStart
    \/ TestLocalJoin

Next ==
    \/ Orchestrator
    \/ \E i \in 1..Len(procs) : Exit(i)
    \/ \E i \in 1..Len(procs) : Die(i)
    \/ \E i \in 1..Len(procs) : Bind(i)

Spec == Init /\ [][Next]_vars

\* A first run: no log directory exists yet.
LiveInit ==
    /\ Init
    /\ dirs = [m \in StageModes |-> NoDir]

\* The subprocess the orchestrator is blocked on, if any
Waited ==
    CASE pc = "rr_join" -> {joinee}
      [] pc = "tr_join" -> {polybeast_proc}
      [] pc = "tl_join" -> {pantheon_proc}
      [] OTHER          -> {}

\* The orchestrator keeps running, and the subprocess it waits for returns.
LiveSpec ==
    /\ LiveInit
    /\ [][Next]_vars
    /\ WF_vars(Orchestrator)
    /\ WF_vars(\E i \in Waited : Exit(i))

----------------------------------------------------------------------------
\* Helpers for the properties

IsPrefix(s, t) == Len(s) <= Len(t) /\ \A k \in 1..Len(s) : s[k] = t[k]

\* The orchestrator is about to run init_logdirs
AtInitLogdirs == pc \in {"run_remote", "trace", "test_local"}

\* The value flags.mode has when that init_logdirs runs
InitMode ==
    CASE pc = "run_remote" -> RunRemoteMode
      [] pc = "trace"      -> "trace"
      [] pc = "test_local" -> "test"
      [] OTHER             -> "none"

\* The function sequences main may run for each mode
ExpectedCalls(m) ==
    CASE m = "train"      -> { <<"remote_train", "trace", "remote_test">> }
      [] m = "test"       -> { <<"remote_test">> }
      [] m = "test_local" -> { <<"test_local">>, <<"test_local", "trace">> }
      [] m = "trace"      -> { <<"trace">> }
      [] OTHER            -> { <<>> }

\* The subprocess that decides when a remote run of mode m ends
Authoritative(m) == IF m = "train" THEN "polybeast" ELSE "pantheon_env"

CleanDir == [exists |-> TRUE, files |-> {}, tb |-> TRUE, tbfiles |-> {}]

----------------------------------------------------------------------------
\* C1: when init_logdirs runs in a mode other than train and the checkpoint
\* file is missing, the run aborts, and once aborted no subprocess is ever
\* started: neither in that stage nor in a later one.
C1_AbortOnMissingCheckpoint ==
    [][ /\ (AtInitLogdirs /\ pc' # pc /\ InitMode # "train" /\ ~checkpoint)
            => (pc' = "aborted" /\ procs' = procs)
        /\ (pc = "aborted") => (pc' = "aborted" /\ Len(procs') = Len(procs))
        /\ (pc' = "aborted" /\ pc # "aborted")
            => \A i \in 1..Len(procs') : procs'[i].flags.mode # InitMode
      ]_vars

\* The train pipeline aborted at its trace stage, after the two training
\* subprocesses had run.
C1_Witness ==
    /\ pc = "aborted"
    /\ mode = "train"
    /\ calls = <<"remote_train", "trace">>
    /\ Len(procs) = 2

\* C2: main runs exactly the functions its mode selects, in order: train runs
\* remote train, trace, remote test; test runs remote test; trace runs trace;
\* test_local runs the local test, with a trace inside it exactly when the
\* traced model is missing; any other mode runs none of them and fails.
C2_DispatchTotal ==
    /\ [](/\ \E e \in ExpectedCalls(mode) : IsPrefix(calls, e)
          /\ (pc = "done") => (mode \in Modes /\ calls \in ExpectedCalls(mode))
          /\ (pc = "failed") => (mode \notin Modes /\ calls = <<>>)
          /\ (mode \notin Modes) => (pc \in {"main", "failed"}))
    /\ [][ /\ (pc = "main") => (pc' = "failed" <=> mode \notin Modes)
           /\ (pc = "tl_check" /\ pc' # pc) => (pc' = "trace" <=> ~traced_model)
           /\ (pc = "tl_check" /\ pc' # pc) => (pc' = "tl_start" <=> traced_model)
         ]_vars

\* The train branch ran to its end.
C2_Witness ==
    /\ pc = "done"
    /\ mode = "train"
    /\ calls = <<"remote_train", "trace", "remote_test">>

\* C3: with a mode outside train, test, test_local and trace, main fails and
\* no step starts a subprocess, creates or removes a directory, or removes
\* the socket file.
C3_UnknownModeNoEffect ==
    [][ (mode \notin Modes) =>
            /\ pc' = "failed"
            /\ procs' = procs
            /\ dirs' = dirs
            /\ socket' = socket
            /\ checkpoint' = checkpoint
            /\ traced_model' = traced_model
      ]_vars

\* main failed on an unknown mode; an old socket file and an old test log
\* directory are still there.
C3_Witness ==
    /\ pc = "failed"
    /\ mode \notin Modes
    /\ socket
    /\ dirs["test"].exists
    /\ dirs["test"].files # {}

\* C4: a subprocess that was sent a kill is the non-authoritative one of a
\* remote run, and the authoritative one of that run has terminated and was
\* never killed; when the orchestrator blocks in run_remote both subprocesses
\* have been started, the learner first.
C4_KillAfterAuthoritative ==
    /\ \A i \in 1..Len(procs) :
          procs[i].killed =>
             /\ procs[i].flags.mode \in {"train", "test"}
             /\ procs[i].flags.cc_env_mode = "remote"
             /\ procs[i].target # Authoritative(procs[i].flags.mode)
             /\ \E j \in 1..Len(procs) :
                   /\ procs[j].flags.mode = procs[i].flags.mode
                   /\ procs[j].target = Authoritative(procs[i].flags.mode)
                   /\ ~procs[j].alive
                   /\ procs[j].joined
                   /\ ~procs[j].killed
    /\ (pc = "rr_join") =>
          /\ 0 < polybeast_proc
          /\ polybeast_proc < pantheon_proc
          /\ pantheon_proc <= Len(procs)
          /\ procs[polybeast_proc].target = "polybeast"
          /\ procs[pantheon_proc].target = "pantheon_env"
          /\ procs[polybeast_proc].flags.mode = RunRemoteMode
          /\ procs[pantheon_proc].flags.mode = RunRemoteMode

\* Both kinds of kill have happened: the environment driver of training and
\* the learner of the remote test.
C4_Witness ==
    /\ \E i \in 1..Len(procs) : procs[i].killed /\ procs[i].target = "pantheon_env"
    /\ \E i \in 1..Len(procs) : procs[i].killed /\ procs[i].target = "polybeast"

\* C5: at most two subprocesses started by the orchestrator are alive at any
\* time, and the environment driver killed at the end of training is no
\* longer alive once a subprocess of a later stage has been started.
C5_AtMostTwoAlive ==
    /\ Cardinality(Alive) <= 2
    /\ \A i \in 1..Len(procs) : \A j \in 1..Len(procs) :
          (procs[i].killed /\ procs[i].flags.mode = "train"
                /\ procs[j].flags.mode # "train")
             => ~procs[i].alive

\* C6: init_logdirs in train mode removes nothing: every directory and file
\* that existed still exists, only logdir and logdir/torchbeast may have been
\* created, and running it once more changes nothing.
C6_TrainInitKeepsLogs ==
    [][ (pc = "run_remote" /\ train /\ pc' # pc) =>
            /\ \A m \in StageModes \ {"train"} : dirs'[m] = dirs[m]
            /\ dirs'["train"].exists
            /\ dirs'["train"].tb
            /\ dirs'["train"].files = dirs["train"].files
            /\ dirs'["train"].tbfiles = dirs["train"].tbfiles
            /\ checkpoint' = checkpoint
            /\ traced_model' = traced_model
            /\ socket' = socket
            /\ init_logdirs_dirs(dirs', "train") = dirs'
      ]_vars

\* init_logdirs has run in train mode over a log directory that held files
\* of an earlier run.
C6_Witness ==
    /\ pc = "rr_socket"
    /\ train
    /\ dirs["train"].files # {}
    /\ dirs["train"].tbfiles # {}

\* C7: when init_logdirs has returned in a test or trace stage, the log
\* directory of that stage exists and holds nothing but an empty torchbeast
\* directory.
C7_NonTrainInitClean ==
    /\ (pc = "rr_socket" /\ ~train) => dirs["test"] = CleanDir
    /\ (pc = "tl_check") => dirs["test"] = CleanDir
    /\ (pc = "tr_start") => dirs["trace"] = CleanDir

\* init_logdirs has returned in the trace stage of the train pipeline.
C7_Witness ==
    /\ pc = "tr_start"
    /\ mode = "train"
    /\ dirs["trace"] = CleanDir

\* C8 as stated: one invocation of main starts at most two subprocesses.
C8_AtMostTwoStarted == Len(procs) <= 2

\* C8: main starts at most two subprocesses in every mode but train, none
\* for an unknown mode, and at most five in train mode: at most two in each
\* remote run and one for the trace.
C8_StartedPerMode ==
    /\ (mode # "train") => Len(procs) <= 2
    /\ (mode \notin Modes) => Len(procs) = 0
    /\ Len(procs) <= 5
    /\ \A m \in StageModes :
          Cardinality({ i \in 1..Len(procs) : procs[i].flags.mode = m })
             <= (IF m = "trace" THEN 1 ELSE 2)

\* The train branch has started all five of its subprocesses.
C8_Witness ==
    /\ mode = "train"
    /\ Len(procs) = 5

\* C9: while the subprocess the orchestrator waits for is alive, the
\* orchestrator stays where it is, kills nothing and starts nothing; and when
\* every awaited subprocess returns, main ends: at "All done" when the
\* checkpoint was there at every check, at the failed assertion otherwise,
\* at the error for an unknown mode.
C9_BlocksUntilExitThenEnds ==
    /\ [][ (\E i \in Waited : procs[i].alive) =>
              /\ pc' = pc
              /\ Len(procs') = Len(procs)
              /\ \A i \in 1..Len(procs) : procs'[i].killed = procs[i].killed
         ]_vars
    /\ <>( \/ pc = "done" /\ mode \in Modes
           \/ pc = "aborted" /\ ~checkpoint
           \/ pc = "failed" /\ mode \notin Modes )

\* main reached "All done" in train mode.
C9_Witness ==
    /\ pc = "done"
    /\ mode = "train"
    /\ checkpoint

\* C10: when the non-authoritative subprocess of a remote run has returned
\* while the authoritative one is alive, the orchestrator stays blocked:
\* nothing is started and the run does not abort; and whatever the exit code
\* of a joined subprocess, the orchestrator goes on to the same position.
C10_NoPartialFailureHandling ==
    [][ /\ (pc = "rr_join" /\ ~procs[killee].alive /\ procs[joinee].alive)
            => (pc' = "rr_join" /\ Len(procs') = Len(procs))
        /\ (pc = "rr_join" /\ pc' # pc) => pc' = "rr_kill"
        /\ (pc = "rr_kill" /\ pc' # pc) => pc' = Head(stack)
        /\ (pc = "tr_join" /\ pc' # pc) => pc' = Head(stack)
        /\ (pc = "tl_join" /\ pc' # pc) => pc' = Head(stack)
      ]_vars

\* The environment driver of a training run has returned with a non-zero
\* exit code while the learner is still running.
C10_Witness ==
    /\ pc = "rr_join"
    /\ train
    /\ ~procs[killee].alive
    /\ procs[killee].exitcode = 1
    /\ procs[joinee].alive

\* The position of a stage mode in the train branch: train, trace, test
StageOrder(m) ==
    CASE m = "train" -> 1
      [] m = "trace" -> 2
      [] m = "test"  -> 3
      [] OTHER       -> 0

\* C11: in train mode the stages run one after another: once a subprocess of
\* a later stage has been started, the learner of training has terminated
\* and been joined, the environment driver of training has been sent its
\* kill, and, for the test stage, the trace learner has terminated and been
\* joined; stages are started in the order train, trace, test.
C11_StagesSequential ==
    (mode = "train") =>
        \A i \in 1..Len(procs) : \A j \in 1..Len(procs) :
            /\ (i < j) => StageOrder(procs[i].flags.mode) <= StageOrder(procs[j].flags.mode)
            /\ (StageOrder(procs[i].flags.mode) < StageOrder(procs[j].flags.mode)) =>
                  IF procs[i].target = "polybeast"
                  THEN ~procs[i].alive /\ procs[i].joined /\ ~procs[i].killed
                  ELSE procs[i].killed

\* The test stage of the train branch is running with both its subprocesses
\* alive.
C11_Witness ==
    /\ mode = "train"
    /\ pc = "rr_join"
    /\ ~train
    /\ procs[polybeast_proc].alive
    /\ procs[pantheon_proc].alive

\* The learners started so far that are still alive
AliveLearners == { i \in Alive : procs[i].target = "polybeast" }

\* C12: a remote run removes the socket file before it starts a subprocess,
\* whether or not the file was there; both subprocesses of a remote run are
\* given the address unix:/tmp/rl_server_path; and the socket file is only
\* ever removed by that step of run_remote, at a moment when no learner
\* started so far is alive.
C12_SocketRendezvous ==
    /\ [](/\ (pc = "rr_start_polybeast") => ~socket
          /\ \A i \in 1..Len(procs) :
                (procs[i].flags.cc_env_mode = "remote" /\ procs[i].flags.mode \in {"train", "test"})
                   => procs[i].flags.address = "unix:/tmp/rl_server_path"
          /\ (pc = "rr_join") =>
                procs[polybeast_proc].flags.address = procs[pantheon_proc].flags.address)
    /\ [][ /\ (pc = "rr_socket" /\ pc' # pc) =>
                 /\ ~socket'
                 /\ pc' = "rr_start_polybeast"
                 /\ procs' = procs
           /\ (socket /\ ~socket') => (pc = "rr_socket" /\ AliveLearners = {})
         ]_vars

\* The test stage of the train branch has removed the socket file and is
\* about to start its learner.
C12_Witness ==
    /\ mode = "train"
    /\ pc = "rr_start_polybeast"
    /\ ~train
    /\ ~socket
    /\ Len(procs) = 3

\* C13: in test_local mode a learner is started exactly when the traced
\* model is missing at the check; it is a trace learner, started and joined
\* before the environment driver is started; the environment driver is
\* started with mode test, the test log directory and cc_env_mode local,
\* and it is started after the trace whether or not the traced model is
\* there by then.
C13_TestLocalTraceFirst ==
    /\ []((mode = "test_local") =>
            /\ \A i \in 1..Len(procs) :
                  IF procs[i].target = "pantheon_env"
                  THEN /\ procs[i].flags.mode = "test"
                       /\ procs[i].flags.logdir = "test"
                       /\ procs[i].flags.cc_env_mode = "local"
                       /\ \A j \in 1..(i - 1) :
                             /\ procs[j].target = "polybeast"
                             /\ ~procs[j].alive
                             /\ procs[j].joined
                  ELSE /\ procs[i].flags.mode = "trace"
                       /\ procs[i].flags.logdir = "trace"
                       /\ calls = <<"test_local", "trace">>
            /\ (calls = <<"test_local", "trace">> /\ pc \in {"tl_join", "main_end", "done"})
                  => (Len(procs) = 2 /\ procs[1].target = "polybeast")
            /\ (pc \in {"tl_start", "tl_join", "main_end", "done"})
                  => (flags.mode = "test" /\ flags.logdir = "test"))
    /\ [][ /\ (pc = "tl_check" /\ pc' # pc) =>
                 (IF traced_model THEN pc' = "tl_start" ELSE pc' = "trace")
           /\ (pc = "tl_start" /\ pc' # pc) =>
                 /\ pc' = "tl_join"
                 /\ Len(procs') = Len(procs) + 1
                 /\ procs'[Len(procs')].target = "pantheon_env"
         ]_vars

\* The environment driver of the local test runs after a trace that left no
\* traced model.
C13_Witness ==
    /\ mode = "test_local"
    /\ pc = "tl_join"
    /\ Len(procs) = 2
    /\ procs[1].joined
    /\ ~traced_model

\* C14: the checkpoint assertion comes after the directory work of
\* init_logdirs: in the step that aborts the run, the log directory of the
\* stage is left existing with nothing but an empty torchbeast directory, so
\* whatever it held before is gone, and a directory that was absent or held
\* anything else is not as the run found it.
C14_AbortAfterClearing ==
    [][ (pc' = "aborted" /\ pc # "aborted") =>
            /\ AtInitLogdirs
            /\ InitMode # "train"
            /\ ~checkpoint
            /\ dirs'[InitMode] = CleanDir
            /\ (dirs[InitMode] # CleanDir) => (dirs' # dirs)
      ]_vars

\* A remote test aborted on the missing checkpoint; the test log directory
\* is the freshly created one.
C14_Witness ==
    /\ pc = "aborted"
    /\ mode = "test"
    /\ ~checkpoint
    /\ dirs["test"] = CleanDir
    /\ procs = <<>>

\* C15: init_logdirs runs only with flags.mode train, test or trace (test
\* in test_local); the directories change only in init_logdirs, and only
\* base_logdir/<mode> of that call does; no step of the orchestrator changes
\* whether the checkpoint file or the traced model file exists.
C15_ArtifactsKept ==
    [][ /\ (AtInitLogdirs /\ pc' # pc) =>
              LET f == IF pc = "trace" THEN trace_flags' ELSE flags'
              IN  /\ f.mode \in StageModes
                  /\ f.mode = InitMode
                  /\ f.logdir = f.mode
                  /\ (pc = "test_local") => f.mode = "test"
        /\ (dirs' # dirs) =>
              /\ AtInitLogdirs
              /\ pc' # pc
              /\ \A m \in StageModes \ {InitMode} : dirs'[m] = dirs[m]
        /\ (pc' # pc) => (checkpoint' = checkpoint /\ traced_model' = traced_model)
      ]_vars

\* A local test with a trace ran to its end over log directories of earlier
\* runs: the checkpoint, the traced model written by the trace and the train
\* log directory are there.
C15_Witness ==
    /\ pc = "done"
    /\ mode = "test_local"
    /\ calls = <<"test_local", "trace">>
    /\ checkpoint
    /\ traced_model
    /\ dirs["train"].files # {}

\* C16: when main has returned normally, every subprocess it started has
\* either terminated and been joined, or been sent a kill.
C16_AllJoinedOrKilled ==
    (pc = "done") =>
        \A i \in 1..Len(procs) :
            \/ procs[i].joined /\ ~procs[i].alive
            \/ procs[i].killed

\* A remote test has returned while its learner, already sent the kill, is
\* still alive and was never joined.
C16_Witness ==
    /\ pc = "done"
    /\ mode = "test"
    /\ Len(procs) = 2
    /\ procs[1].killed
    /\ procs[1].alive
    /\ ~procs[1].joined
    /\ procs[2].joined

====
